---- MODULE Spec2Model ----
(***************************************************************************)
(* SafeWorld crime map: the city dataset (crimeData), the search index     *)
(* (searchIndex), the query handler (handleSearch) and the city switch     *)
(* (switchCity / initMap) of web/assets/js/colorblind-accessibility.js.    *)
(*                                                                         *)
(* JavaScript strings are sequences of one-character strings, so that      *)
(* includes/startsWith/trim/toLowerCase/localeCompare are computed.        *)
(* An optional JavaScript value is Undefined (<<>>) or Def(v) (<<v>>).     *)
(***************************************************************************)
EXTENDS Integers, Sequences, FiniteSets, TLC

(***************************************************************************)
(* Bounds of the model.                                                    *)
(***************************************************************************)
\* fetch chains (initMap calls) that may be in flight at the same time
MaxLoads == 2

(***************************************************************************)
(* Optional values and JavaScript truthiness.                              *)
(***************************************************************************)
Undefined == <<>>
Def(v) == <<v>>
IsDef(o) == o # <<>>
Val(o) == o[1]

\* !!s for an optional string: undefined and "" are falsy
TruthyStr(o) == IsDef(o) /\ Val(o) # <<>>
\* !!n for an optional number: undefined and 0 are falsy
TruthyNum(o) == IsDef(o) /\ Val(o) # 0

(***************************************************************************)
(* Strings.                                                                *)
(***************************************************************************)
LowerAlphabet == <<"a","b","c","d","e","f","g","h","i","j","k","l","m",
                   "n","o","p","q","r","s","t","u","v","w","x","y","z">>
UpperAlphabet == <<"A","B","C","D","E","F","G","H","I","J","K","L","M",
                   "N","O","P","Q","R","S","T","U","V","W","X","Y","Z">>
Digits == <<"0","1","2","3","4","5","6","7","8","9">>

Range(seq) == {seq[i] : i \in 1..Len(seq)}

Chars == {" "} \cup Range(Digits) \cup Range(LowerAlphabet) \cup Range(UpperAlphabet)

IndexIn(alphabet, c) ==
  IF \E i \in 1..Len(alphabet) : alphabet[i] = c
  THEN CHOOSE i \in 1..Len(alphabet) : alphabet[i] = c
  ELSE 0

IsUpperChar(c) == c \in Range(UpperAlphabet)
IsLowerChar(c) == c \in Range(LowerAlphabet)
IsDigitChar(c) == c \in Range(Digits)

LowerOf == [c \in Chars |-> IF IsUpperChar(c) THEN LowerAlphabet[IndexIn(UpperAlphabet, c)] ELSE c]
UpperOf == [c \in Chars |-> IF IsLowerChar(c) THEN UpperAlphabet[IndexIn(LowerAlphabet, c)] ELSE c]

ToLowerChar(c) == LowerOf[c]
ToUpperChar(c) == UpperOf[c]

\* String.prototype.toLowerCase / toUpperCase
toLowerCase(s) == [i \in 1..Len(s) |-> ToLowerChar(s[i])]
toUpperCase(s) == [i \in 1..Len(s) |-> ToUpperChar(s[i])]

\* String.prototype.startsWith
startsWith(s, q) == Len(q) <= Len(s) /\ SubSeq(s, 1, Len(q)) = q

\* position (0-based) of the first occurrence of q in s, or -1: String.prototype.indexOf
indexOf(s, q) ==
  IF \E i \in 0..(Len(s) - Len(q)) : SubSeq(s, i + 1, i + Len(q)) = q
  THEN CHOOSE i \in 0..(Len(s) - Len(q)) :
         /\ SubSeq(s, i + 1, i + Len(q)) = q
         /\ \A j \in 0..(i - 1) : SubSeq(s, j + 1, j + Len(q)) # q
  ELSE -1

\* String.prototype.includes
includes(s, q) == indexOf(s, q) # -1

\* String.prototype.replace with a string pattern: the first occurrence only
replace(s, pat, rep) ==
  LET i == indexOf(s, pat)
  IN IF i = -1 THEN s
     ELSE SubSeq(s, 1, i) \o rep \o SubSeq(s, i + Len(pat) + 1, Len(s))

\* String.prototype.trim (the only white space of the alphabet is " ")
trimNone(s) == s

trim(s) ==
  LET keep == {i \in 1..Len(s) : s[i] # " "}
  IN IF keep = {} THEN <<>>
     ELSE LET lo == CHOOSE i \in keep : \A j \in keep : i <= j
              hi == CHOOSE i \in keep : \A j \in keep : j <= i
          IN SubSeq(s, lo, hi)

(***************************************************************************)
(* String.prototype.localeCompare under the default (root) collation:      *)
(* white space, then digits, then letters; letters compare without case    *)
(* first, and a lower-case letter precedes its upper-case letter only when *)
(* the strings are otherwise equal.  The result is -1, 0 or 1.             *)
(***************************************************************************)
CollationOrder == <<" ">> \o Digits \o LowerAlphabet

WeightOf == [c \in Chars |-> IndexIn(CollationOrder, LowerOf[c])]

PrimaryWeight(c) == WeightOf[c]

RECURSIVE ComparePrimary(_, _, _)
ComparePrimary(a, b, i) ==
  IF i > Len(a) /\ i > Len(b) THEN 0
  ELSE IF i > Len(a) THEN -1
  ELSE IF i > Len(b) THEN 1
  ELSE IF PrimaryWeight(a[i]) < PrimaryWeight(b[i]) THEN -1
  ELSE IF PrimaryWeight(a[i]) > PrimaryWeight(b[i]) THEN 1
  ELSE ComparePrimary(a, b, i + 1)

RECURSIVE CompareCase(_, _, _)
CompareCase(a, b, i) ==
  IF i > Len(a) THEN 0
  ELSE IF a[i] = b[i] THEN CompareCase(a, b, i + 1)
  ELSE IF IsLowerChar(a[i]) THEN -1 ELSE 1

localeCompare(a, b) ==
  LET p == ComparePrimary(a, b, 1)
  IN IF p # 0 THEN p ELSE CompareCase(a, b, 1)

(***************************************************************************)
(* A JavaScript object with string keys, as the sequence of its            *)
(* [key, value] properties in enumeration order (Object.entries): keys     *)
(* that are array indices come first in ascending numeric order, the       *)
(* other keys follow in insertion order.                                   *)
(***************************************************************************)
IsArrayIndex(k) ==
  /\ Len(k) >= 1
  /\ \A i \in 1..Len(k) : IsDigitChar(k[i])
  /\ (Len(k) = 1 \/ k[1] # "0")

RECURSIVE DigitsLess(_, _, _)
DigitsLess(a, b, i) ==
  IF i > Len(a) THEN FALSE
  ELSE IF a[i] # b[i] THEN IndexIn(Digits, a[i]) < IndexIn(Digits, b[i])
  ELSE DigitsLess(a, b, i + 1)

IndexLess(a, b) == Len(a) < Len(b) \/ (Len(a) = Len(b) /\ DigitsLess(a, b, 1))

HasKey(obj, k) == \E i \in 1..Len(obj) : obj[i].key = k

\* obj[k]
ObjGet(obj, k) ==
  IF HasKey(obj, k)
  THEN Def(obj[CHOOSE i \in 1..Len(obj) : obj[i].key = k].value)
  ELSE Undefined

\* obj[k] = v
ObjSet(obj, k, v) ==
  IF HasKey(obj, k)
  THEN [i \in 1..Len(obj) |-> IF obj[i].key = k THEN [key |-> k, value |-> v] ELSE obj[i]]
  ELSE IF IsArrayIndex(k)
  THEN LET p == Cardinality({i \in 1..Len(obj) :
                               IsArrayIndex(obj[i].key) /\ IndexLess(obj[i].key, k)})
       IN SubSeq(obj, 1, p) \o <<[key |-> k, value |-> v]>> \o SubSeq(obj, p + 1, Len(obj))
  ELSE Append(obj, [key |-> k, value |-> v])

(***************************************************************************)
(* Cities and their configuration.                                         *)
(***************************************************************************)
Cities == {"london", "nyc"}

cityConfigs ==
  [london |-> [dataFile |-> "london_crime_data.json",
               areaType |-> "wards",
               areaTypeLabel |-> <<"W","a","r","d">>],
   nyc    |-> [dataFile |-> "nyc_detailed_crime_data.json",
               areaType |-> "precincts",
               areaTypeLabel |-> <<"P","r","e","c","i","n","c","t">>]]

(***************************************************************************)
(* Raw records of the borough documents.  src names the document a record  *)
(* object was parsed from (the identity of the object, not a JSON field).  *)
(***************************************************************************)
Area(name) == [name |-> name, totalCrimes |-> Def(0), crimeTypes |-> Undefined]

LondonBorough(src, name, score, totalCrimes, wards) ==
  [src |-> src, name |-> name, score |-> score, safety_score |-> Undefined,
   safety_level |-> Undefined, totalCrimes |-> totalCrimes, total_crimes |-> Undefined,
   crime_breakdown |-> Undefined, wards |-> wards, precincts |-> Undefined]

NycBorough(src, name, score, totalCrimes, precincts) ==
  [src |-> src, name |-> name, score |-> score, safety_score |-> Undefined,
   safety_level |-> Undefined, totalCrimes |-> totalCrimes, total_crimes |-> Undefined,
   crime_breakdown |-> Undefined, wards |-> Undefined, precincts |-> precincts]

sPrecinct == <<"P","r","e","c","i","n","c","t"," ">>
sPct == <<"p","c","t"," ">>
sPrecinctLower == <<"p","r","e","c","i","n","c","t"," ">>
sBorough == <<"b","o","r","o","u","g","h">>

\* london_crime_data.json as served
LondonDoc ==
  [id |-> "london_ok", city |-> "london", boroughs |-> <<
    LondonBorough("london_ok", Def(<<"W","e","s","t"," ","L","o","n","d","o","n">>), Def(7), Def(120),
      Def(<<Area(Def(<<"L","o","n","d","o","n"," ","F","i","e","l","d","s">>))>>)),
    LondonBorough("london_ok", Def(<<"L","o","n","d","o","n","d","e","r","r","y">>), Def(2), Def(30),
      Def(<<>>)) >>]

\* london_crime_data.json with a borough that has no name
LondonBadDoc ==
  [id |-> "london_bad", city |-> "london", boroughs |-> <<
    LondonBorough("london_bad", Def(<<"C","a","m","d","e","n">>), Def(6), Def(90), Def(<<>>)),
    LondonBorough("london_bad", Undefined, Def(4), Def(50), Def(<<>>)),
    LondonBorough("london_bad", Def(<<"E","a","l","i","n","g">>), Def(3), Def(40), Def(<<>>)) >>]

\* nyc_detailed_crime_data.json as served
NycDoc ==
  [id |-> "nyc_ok", city |-> "nyc", boroughs |-> <<
    NycBorough("nyc_ok", Def(<<"B","r","o","n","x">>), Def(9), Def(300),
      Def(<<Area(Def(sPrecinct \o <<"4","0">>))>>)) >>]

AllDocs == {LondonDoc, LondonBadDoc, NycDoc}

\* the documents a fetch of cityConfigs[city].dataFile may deliver
Docs(city) == {d \in AllDocs : d.city = city}

DocCity(id) == (CHOOSE d \in AllDocs : d.id = id).city

(***************************************************************************)
(* initMap, first .then callback: data.boroughs.forEach(borough =>         *)
(*   crimeData[borough.name.toUpperCase()] = borough).  A borough without  *)
(* a name throws a TypeError at that borough: the assignments made before  *)
(* it stay, ok is FALSE and the chain goes to its catch handler.           *)
(***************************************************************************)
RECURSIVE loadBoroughs(_, _, _)
loadBoroughs(data, boroughs, i) ==
  IF i > Len(boroughs) THEN [crimeData |-> data, ok |-> TRUE]
  ELSE IF ~IsDef(boroughs[i].name) THEN [crimeData |-> data, ok |-> FALSE]
  ELSE loadBoroughs(ObjSet(data, toUpperCase(Val(boroughs[i].name)), boroughs[i]),
                    boroughs, i + 1)

(***************************************************************************)
(* buildSearchIndex                                                        *)
(***************************************************************************)
\* boroughData.score || boroughData.safety_score || boroughData.totalCrimes || 0
entryScore(boroughData) ==
  IF TruthyNum(boroughData.score) THEN Val(boroughData.score)
  ELSE IF TruthyNum(boroughData.safety_score) THEN Val(boroughData.safety_score)
  ELSE IF TruthyNum(boroughData.totalCrimes) THEN Val(boroughData.totalCrimes)
  ELSE 0

boroughEntry(boroughData) ==
  [type |-> sBorough,
   name |-> Val(boroughData.name),
   searchName |-> toLowerCase(Val(boroughData.name)),
   searchTerms |-> Undefined,
   borough |-> Undefined,
   data |-> boroughData,
   score |-> entryScore(boroughData),
   areaData |-> Undefined]

\* the search terms of an area: its lower-cased name and, for an NYC precinct, its aliases
areaSearchTermsNameOnly(area, city) == <<toLowerCase(Val(area.name))>>

areaSearchTerms(area, city) ==
  LET name == Val(area.name)
      precinctNum == replace(name, sPrecinct, <<>>)
  IN <<toLowerCase(name)>> \o
     (IF city = "nyc" /\ includes(name, sPrecinct)
      THEN <<precinctNum, sPct \o precinctNum, sPrecinctLower \o precinctNum>>
      ELSE <<>>)

areaEntry(boroughData, area, city) ==
  [type |-> toLowerCase(cityConfigs[city].areaTypeLabel),
   name |-> Val(area.name),
   searchName |-> toLowerCase(Val(area.name)),
   searchTerms |-> Def(areaSearchTerms(area, city)),
   borough |-> Def(Val(boroughData.name)),
   data |-> boroughData,
   score |-> entryScore(boroughData),
   areaData |-> Def(area)]

RECURSIVE areaEntries(_, _, _, _)
areaEntries(boroughData, areas, city, i) ==
  IF i > Len(areas) THEN <<>>
  ELSE (IF ~TruthyStr(areas[i].name) THEN <<>>
        ELSE <<areaEntry(boroughData, areas[i], city)>>)
       \o areaEntries(boroughData, areas, city, i + 1)

\* what one iteration of the Object.entries(crimeData).forEach callback pushes
boroughEntriesKeepAreas(boroughData, city) ==
  LET areas == boroughData[cityConfigs[city].areaType]
  IN (IF ~TruthyStr(boroughData.name) THEN <<>> ELSE <<boroughEntry(boroughData)>>) \o
     (IF IsDef(areas) THEN areaEntries(boroughData, Val(areas), city, 1) ELSE <<>>)

boroughEntries(boroughData, city) ==
  LET areas == boroughData[cityConfigs[city].areaType]
  IN IF ~TruthyStr(boroughData.name) THEN <<>>
     ELSE <<boroughEntry(boroughData)>> \o
          (IF IsDef(areas) THEN areaEntries(boroughData, Val(areas), city, 1) ELSE <<>>)

\* the pushes of the Object.entries(crimeData).forEach loop, from entry i on
RECURSIVE boroughsFrom(_, _)
boroughsFrom(data, i) ==
  IF i > Len(data) THEN <<>>
  ELSE (IF ~TruthyStr(data[i].value.name) THEN <<>> ELSE <<boroughEntry(data[i].value)>>)
       \o boroughsFrom(data, i + 1)

RECURSIVE areasFrom(_, _, _)
areasFrom(data, city, i) ==
  IF i > Len(data) THEN <<>>
  ELSE LET all == boroughEntries(data[i].value, city)
       IN SubSeq(all, 2, Len(all)) \o areasFrom(data, city, i + 1)

indexFromGrouped(data, city, i) == boroughsFrom(data, i) \o areasFrom(data, city, i)

RECURSIVE indexFrom(_, _, _)
indexFrom(data, city, i) ==
  IF i > Len(data) THEN <<>>
  ELSE boroughEntries(data[i].value, city) \o indexFrom(data, city, i + 1)

\* one call of buildSearchIndex with `index` in searchIndex: the value it
\* leaves in searchIndex (searchIndex = []; the early return; the pushes)
buildSearchIndexNoReset(index, data, city) ==
  IF Len(data) = 0 THEN index ELSE index \o indexFrom(data, city, 1)

buildSearchIndexOn(index, data, city) ==
  LET reset == <<>>
  IN IF Len(data) = 0 THEN reset ELSE reset \o indexFrom(data, city, 1)

\* buildSearchIndex on a fresh page (searchIndex is [])
buildSearchIndex(data, city) == buildSearchIndexOn(<<>>, data, city)

(***************************************************************************)
(* handleSearch: filter, sort, slice                                       *)
(***************************************************************************)
MaxResults == 8

\* item.searchTerms && item.searchTerms.some(term => term.includes(query))
someTermIncludes(item, query) ==
  IsDef(item.searchTerms) /\
  \E i \in 1..Len(Val(item.searchTerms)) : includes(Val(item.searchTerms)[i], query)

\* item.searchTerms && item.searchTerms.some(term => term.startsWith(query))
someTermStartsWith(item, query) ==
  IsDef(item.searchTerms) /\
  \E i \in 1..Len(Val(item.searchTerms)) : startsWith(Val(item.searchTerms)[i], query)

\* the filter callback
filterItemNameOnly(item, query) == includes(item.searchName, query)

filterItem(item, query) ==
  IF includes(item.searchName, query) THEN TRUE
  ELSE IF IsDef(item.searchTerms)
  THEN someTermIncludes(item, query)
  ELSE FALSE

\* aExact / bExact of the sort callback
exactRank(item, query) ==
  IF startsWith(item.searchName, query) \/ someTermStartsWith(item, query) THEN 0 ELSE 1

typeRank(item) == IF item.type = sBorough THEN 0 ELSE 1

\* the sort callback
compareItemsNoPrefix(a, b, query) ==
  IF typeRank(a) # typeRank(b) THEN typeRank(a) - typeRank(b)
  ELSE localeCompare(a.name, b.name)

compareItemsNoType(a, b, query) ==
  IF exactRank(a, query) # exactRank(b, query)
  THEN exactRank(a, query) - exactRank(b, query)
  ELSE localeCompare(a.name, b.name)

compareItems(a, b, query) ==
  IF exactRank(a, query) # exactRank(b, query)
  THEN exactRank(a, query) - exactRank(b, query)
  ELSE IF typeRank(a) # typeRank(b) THEN typeRank(a) - typeRank(b)
  ELSE localeCompare(a.name, b.name)

\* Array.prototype.filter with filterItem
RECURSIVE filterIndex(_, _, _)
filterIndex(index, query, i) ==
  IF i > Len(index) THEN <<>>
  ELSE (IF filterItem(index[i], query) THEN <<index[i]>> ELSE <<>>)
       \o filterIndex(index, query, i + 1)

\* Array.prototype.sort with compareItems: stable, so an item goes behind
\* every item already placed that does not compare greater
insertItem(sorted, x, query) ==
  LET p == Cardinality({i \in 1..Len(sorted) : compareItems(sorted[i], x, query) <= 0})
  IN SubSeq(sorted, 1, p) \o <<x>> \o SubSeq(sorted, p + 1, Len(sorted))

RECURSIVE sortItems(_, _, _)
sortItems(items, query, n) ==
  IF n = 0 THEN <<>>
  ELSE insertItem(sortItems(items, query, n - 1), items[n], query)

\* Array.prototype.slice(0, count)
slice(items, count) == SubSeq(items, 1, IF Len(items) < count THEN Len(items) ELSE count)

\* the value of `results` in handleSearch
searchResultsSliceFirst(index, query) ==
  LET kept == slice(filterIndex(index, query, 1), MaxResults)
  IN sortItems(kept, query, Len(kept))

searchResults(index, query) ==
  LET matched == filterIndex(index, query, 1)
  IN slice(sortItems(matched, query, Len(matched)), MaxResults)

(***************************************************************************)
(* getSafetyLevel: the comparisons of an undefined score are all false     *)
(***************************************************************************)
VerySafe == "Very Safe"
Safe == "Safe"
Moderate == "Moderate"
Caution == "Caution"
HighRisk == "High Risk"

getSafetyLevelExclusive(score) ==
  IF IsDef(score) /\ Val(score) < 3 THEN VerySafe
  ELSE IF IsDef(score) /\ Val(score) < 5 THEN Safe
  ELSE IF IsDef(score) /\ Val(score) < 7 THEN Moderate
  ELSE IF IsDef(score) /\ Val(score) < 8 THEN Caution
  ELSE HighRisk

getSafetyLevel(score) ==
  IF IsDef(score) /\ Val(score) <= 3 THEN VerySafe
  ELSE IF IsDef(score) /\ Val(score) <= 5 THEN Safe
  ELSE IF IsDef(score) /\ Val(score) <= 7 THEN Moderate
  ELSE IF IsDef(score) /\ Val(score) <= 8 THEN Caution
  ELSE HighRisk

\* const safetyLevel = getSafetyLevel(result.score), for each rendered result
renderLevels(rows) == [i \in 1..Len(rows) |-> getSafetyLevel(Def(rows[i].score))]

(***************************************************************************)
(* Colours: the palettes of VisualInclusivity, the fill of a map feature   *)
(* and getSafetyColor.                                                     *)
(***************************************************************************)
standardPalette ==
  << "#1a5f1a", "#2d7a2d", "#4a9d4a", "#6bb86b", "#8dd08d",
     "#ffd633", "#ffb84d", "#ff9966", "#ff6b7f", "#ff4757" >>

visualInclusivePalette ==
  << "#08306b", "#08519c", "#2171b5", "#4292c6", "#6baed6",
     "#fd8d3c", "#f16913", "#d94801", "#a63603", "#7f2704" >>

\* getCurrentPalette()
getCurrentPalette(isVisualInclusiveMode) ==
  IF isVisualInclusiveMode THEN visualInclusivePalette ELSE standardPalette

DefaultFill == "#dee2e6"

\* updateMapStyle: palette[score - 1] || '#dee2e6', with score the feature's
\* Score || safety_score
fillColor(palette, score) ==
  IF TruthyNum(score) /\ Val(score) \in 1..Len(palette)
  THEN palette[Val(score)]
  ELSE DefaultFill

\* window.ColorblindAccessibility && window.ColorblindAccessibility.isColorblindModeActive():
\* no script assigns window.ColorblindAccessibility (the class instance is
\* window.VisualInclusivity), so the value is undefined, which is falsy
isColorblindModeActive == FALSE

getSafetyColor(score, isColorblindMode) ==
  IF isColorblindMode
  THEN IF IsDef(score) /\ Val(score) <= 3 THEN "#08306b"
       ELSE IF IsDef(score) /\ Val(score) <= 5 THEN "#2171b5"
       ELSE IF IsDef(score) /\ Val(score) <= 7 THEN "#fd8d3c"
       ELSE IF IsDef(score) /\ Val(score) <= 8 THEN "#d94801"
       ELSE "#7f2704"
  ELSE IF IsDef(score) /\ Val(score) <= 3 THEN "#1a5f1a"
       ELSE IF IsDef(score) /\ Val(score) <= 5 THEN "#4a9d4a"
       ELSE IF IsDef(score) /\ Val(score) <= 7 THEN "#ffd633"
       ELSE IF IsDef(score) /\ Val(score) <= 8 THEN "#ff9966"
       ELSE "#ff4757"

\* style="background: ${safetyColor}", for each rendered result
renderColors(rows) ==
  [i \in 1..Len(rows) |-> getSafetyColor(Def(rows[i].score), isColorblindModeActive)]

\* the rows updateLegendColors writes: the scores a row is labelled with,
\* its category text and its swatch
legendRows(isColorblindMode) ==
  LET palette == IF isColorblindMode THEN visualInclusivePalette ELSE standardPalette
  IN << [low |-> 1,  high |-> 2,  label |-> "Very Safe",      color |-> palette[1]],
        [low |-> 3,  high |-> 4,  label |-> "Safe",           color |-> palette[3]],
        [low |-> 5,  high |-> 5,  label |-> "Moderate",       color |-> palette[5]],
        [low |-> 6,  high |-> 7,  label |-> "Caution",        color |-> palette[7]],
        [low |-> 8,  high |-> 9,  label |-> "High Risk",      color |-> palette[9]],
        [low |-> 10, high |-> 10, label |-> "Very High Risk", color |-> palette[10]] >>

(***************************************************************************)
(* formatCrimeType                                                         *)
(***************************************************************************)
crimeTypeMap == <<
  [key |-> <<"V","I","O","L","E","N","C","E","A","G","A","I","N","S","T","T","H","E","P","E","R","S","O","N">>,
   value |-> <<"V","i","o","l","e","n","c","e"," ","A","g","a","i","n","s","t"," ","P","e","r","s","o","n">>],
  [key |-> <<"V","E","H","I","C","L","E","O","F","F","E","N","C","E","S">>,
   value |-> <<"V","e","h","i","c","l","e"," ","O","f","f","e","n","c","e","s">>],
  [key |-> <<"V","E","H","I","C","L","E"," ","O","F","F","E","N","C","E","S">>,
   value |-> <<"V","e","h","i","c","l","e"," ","O","f","f","e","n","c","e","s">>],
  [key |-> <<"B","U","R","G","L","A","R","Y">>,
   value |-> <<"B","u","r","g","l","a","r","y">>],
  [key |-> <<"T","H","E","F","T">>,
   value |-> <<"T","h","e","f","t">>],
  [key |-> <<"R","O","B","B","E","R","Y">>,
   value |-> <<"R","o","b","b","e","r","y">>],
  [key |-> <<"D","R","U","G","O","F","F","E","N","C","E","S">>,
   value |-> <<"D","r","u","g"," ","O","f","f","e","n","c","e","s">>],
  [key |-> <<"D","R","U","G"," ","O","F","F","E","N","C","E","S">>,
   value |-> <<"D","r","u","g"," ","O","f","f","e","n","c","e","s">>],
  [key |-> <<"P","U","B","L","I","C","O","R","D","E","R","O","F","F","E","N","C","E","S">>,
   value |-> <<"P","u","b","l","i","c"," ","O","r","d","e","r">>],
  [key |-> <<"P","U","B","L","I","C"," ","O","R","D","E","R">>,
   value |-> <<"P","u","b","l","i","c"," ","O","r","d","e","r">>],
  [key |-> <<"C","R","I","M","I","N","A","L","O","F","F","E","N","C","E","S">>,
   value |-> <<"C","r","i","m","i","n","a","l"," ","O","f","f","e","n","c","e","s">>],
  [key |-> <<"C","R","I","M","I","N","A","L"," ","D","A","M","A","G","E">>,
   value |-> <<"C","r","i","m","i","n","a","l"," ","D","a","m","a","g","e">>],
  [key |-> <<"F","R","A","U","D">>,
   value |-> <<"F","r","a","u","d">>],
  [key |-> <<"S","E","X","U","A","L","O","F","F","E","N","C","E","S">>,
   value |-> <<"S","e","x","u","a","l"," ","O","f","f","e","n","c","e","s">>],
  [key |-> <<"S","E","X","U","A","L"," ","O","F","F","E","N","C","E","S">>,
   value |-> <<"S","e","x","u","a","l"," ","O","f","f","e","n","c","e","s">>],
  [key |-> <<"A","S","S","A","U","L","T">>,
   value |-> <<"A","s","s","a","u","l","t">>],
  [key |-> <<"W","E","A","P","O","N","S"," ","O","F","F","E","N","C","E","S">>,
   value |-> <<"W","e","a","p","o","n","s"," ","O","f","f","e","n","c","e","s">>],
  [key |-> <<"H","A","R","A","S","S","M","E","N","T">>,
   value |-> <<"H","a","r","a","s","s","m","e","n","t">>],
  [key |-> <<"T","R","E","S","P","A","S","S","I","N","G">>,
   value |-> <<"T","r","e","s","p","a","s","s","i","n","g">>],
  [key |-> <<"H","O","M","I","C","I","D","E">>,
   value |-> <<"H","o","m","i","c","i","d","e">>],
  [key |-> <<"A","R","S","O","N">>,
   value |-> <<"A","r","s","o","n">>],
  [key |-> <<"K","I","D","N","A","P","P","I","N","G">>,
   value |-> <<"K","i","d","n","a","p","p","i","n","g">>],
  [key |-> <<"G","A","M","B","L","I","N","G">>,
   value |-> <<"G","a","m","b","l","i","n","g">>],
  [key |-> <<"A","L","C","O","H","O","L"," ","O","F","F","E","N","C","E","S">>,
   value |-> <<"A","l","c","o","h","o","l"," ","O","f","f","e","n","c","e","s">>],
  [key |-> <<"R","E","G","U","L","A","T","O","R","Y"," ","V","I","O","L","A","T","I","O","N","S">>,
   value |-> <<"R","e","g","u","l","a","t","o","r","y"," ","V","i","o","l","a","t","i","o","n","s">>],
  [key |-> <<"C","U","S","T","O","D","Y"," ","O","F","F","E","N","C","E","S">>,
   value |-> <<"C","u","s","t","o","d","y"," ","O","f","f","e","n","c","e","s">>],
  [key |-> <<"M","I","S","C","E","L","L","A","N","E","O","U","S">>,
   value |-> <<"M","i","s","c","e","l","l","a","n","e","o","u","s">>],
  [key |-> <<"O","T","H","E","R">>,
   value |-> <<"O","t","h","e","r">>]
  >>

\* type.replace(/\s+/g, '')
RECURSIVE removeSpaces(_)
removeSpaces(s) ==
  IF Len(s) = 0 THEN <<>>
  ELSE (IF Head(s) = " " THEN <<>> ELSE <<Head(s)>>) \o removeSpaces(Tail(s))

\* type.charAt(0).toUpperCase() + type.slice(1).toLowerCase()
capitalize(type) ==
  IF Len(type) = 0 THEN <<>>
  ELSE <<ToUpperChar(type[1])>> \o toLowerCase(Tail(type))

formatCrimeType(type) ==
  LET upperType == removeSpaces(toUpperCase(type))
      compact == ObjGet(crimeTypeMap, upperType)
      spaced == ObjGet(crimeTypeMap, toUpperCase(type))
  IN IF TruthyStr(compact) THEN Val(compact)
     ELSE IF TruthyStr(spaced) THEN Val(spaced)
     ELSE capitalize(type)

(***************************************************************************)
(* getTopCrimeType                                                         *)
(***************************************************************************)
sNotAvailable == <<"N","/","A">>

\* Object.entries(area.crimeTypes || {}).forEach(([type, count]) => {
\*   allCrimes[type] = (allCrimes[type] || 0) + count })
RECURSIVE addCrimeTypes(_, _, _)
addCrimeTypes(allCrimes, entries, j) ==
  IF j > Len(entries) THEN allCrimes
  ELSE LET type == entries[j].key
           old == ObjGet(allCrimes, type)
           sum == (IF TruthyNum(old) THEN Val(old) ELSE 0) + entries[j].value
       IN addCrimeTypes(ObjSet(allCrimes, type, sum), entries, j + 1)

\* areas.forEach(area => ...)
RECURSIVE sumAreas(_, _, _)
sumAreas(allCrimes, areas, i) ==
  IF i > Len(areas) THEN allCrimes
  ELSE LET crimeTypes == IF IsDef(areas[i].crimeTypes) THEN Val(areas[i].crimeTypes) ELSE <<>>
       IN sumAreas(addCrimeTypes(allCrimes, crimeTypes, 1), areas, i + 1)

\* boroughData[cityConfigs[city].areaType]
areasField(boroughData, city) ==
  IF cityConfigs[city].areaType = "wards" THEN boroughData.wards ELSE boroughData.precincts

\* .sort((a, b) => b[1] - a[1]): stable, so an entry goes behind every entry
\* already placed whose count is not smaller
insertByCount(sorted, x) ==
  LET p == Cardinality({i \in 1..Len(sorted) : sorted[i].value >= x.value})
  IN SubSeq(sorted, 1, p) \o <<x>> \o SubSeq(sorted, p + 1, Len(sorted))

RECURSIVE sortByCount(_, _)
sortByCount(entries, n) ==
  IF n = 0 THEN <<>>
  ELSE insertByCount(sortByCount(entries, n - 1), entries[n])

\* let allCrimes in getTopCrimeType, after the aggregation
allCrimesOf(boroughData, city) ==
  IF city = "nyc" /\ IsDef(boroughData.crime_breakdown)
  THEN Val(boroughData.crime_breakdown)
  ELSE LET field == areasField(boroughData, city)
           areas == IF IsDef(field) THEN Val(field) ELSE <<>>
       IN sumAreas(<<>>, areas, 1)

getTopCrimeTypeNoDefault(boroughData, city) ==
  LET allCrimes == allCrimesOf(boroughData, city)
      sorted == sortByCount(allCrimes, Len(allCrimes))
  IN IF Len(sorted) > 0 THEN formatCrimeType(sorted[1].key) ELSE <<>>

getTopCrimeType(boroughData, city) ==
  LET allCrimes == allCrimesOf(boroughData, city)
      sorted == sortByCount(allCrimes, Len(allCrimes))
  IN IF Len(sorted) > 0 THEN formatCrimeType(sorted[1].key) ELSE sNotAvailable

(***************************************************************************)
(* showDashboard: what it renders for a record, or the TypeError of        *)
(* totalCrimes.toLocaleString() when neither total is truthy               *)
(***************************************************************************)
\* the formatted labels of an area card: its three most frequent crime types
areaCard(area) ==
  LET crimeEntries == IF IsDef(area.crimeTypes) THEN Val(area.crimeTypes) ELSE <<>>
      topCrimes == slice(sortByCount(crimeEntries, Len(crimeEntries)), 3)
  IN [name |-> area.name,
      crimes |-> [k \in 1..Len(topCrimes) |-> formatCrimeType(topCrimes[k].key)]]

\* boroughData.totalCrimes || boroughData.total_crimes
dashboardTotal(boroughData) ==
  IF TruthyNum(boroughData.totalCrimes) THEN boroughData.totalCrimes
  ELSE boroughData.total_crimes

\* boroughData.score || boroughData.safety_score
dashboardScore(boroughData) ==
  IF TruthyNum(boroughData.score) THEN boroughData.score
  ELSE boroughData.safety_score

\* boroughData.safety_level || getSafetyLevel(score)
dashboardLevel(boroughData) ==
  IF IsDef(boroughData.safety_level) /\ Val(boroughData.safety_level) # ""
  THEN Val(boroughData.safety_level)
  ELSE getSafetyLevel(dashboardScore(boroughData))

dashboardColor(boroughData) ==
  getSafetyColor(dashboardScore(boroughData), isColorblindModeActive)

dashboardThrows(boroughData) == ~IsDef(dashboardTotal(boroughData))

\* boroughData[areaType] ? Math.round(totalCrimes / boroughData[areaType].length) : 0;
\* the quotient by zero areas is Infinity or NaN, which is rendered as text
areaAverage(field, totalCrimes) ==
  IF ~IsDef(field) THEN [finite |-> TRUE, value |-> 0]
  ELSE IF Len(Val(field)) = 0 THEN [finite |-> FALSE, value |-> 0]
  ELSE [finite |-> TRUE,
        value |-> (2 * totalCrimes + Len(Val(field))) \div (2 * Len(Val(field)))]

dashboardContent(boroughData, city) ==
  LET field == areasField(boroughData, city)
      areas == IF IsDef(field) THEN Val(field) ELSE <<>>
      shown == slice(areas, 10)
  IN [name |-> boroughData.name,
      safetyLevel |-> dashboardLevel(boroughData),
      safetyColor |-> dashboardColor(boroughData),
      score |-> dashboardScore(boroughData),
      totalCrimes |-> Val(dashboardTotal(boroughData)),
      areaCount |-> Len(areas),
      average |-> areaAverage(field, Val(dashboardTotal(boroughData))),
      topCrime |-> getTopCrimeType(boroughData, city),
      cards |-> [k \in 1..Len(shown) |-> areaCard(shown[k])]]

(***************************************************************************)
(* The page.                                                               *)
(***************************************************************************)
VARIABLES
  currentCity,     \* let currentCity
  crimeData,       \* let crimeData
  searchIndex,     \* let searchIndex
  loads,           \* fetch chains in flight: how many per config city and stage
  searchBox,       \* #search-container exists
  searchValue,     \* #borough-search value
  clearDisplay,    \* #clear-search style.display
  results,         \* the entries rendered into #search-results
  resultLevels,    \* the safety level text rendered with each of them
  resultColors,    \* the badge colour rendered with each of them
  resultsDisplay,  \* #search-results style.display
  dashboard,       \* the borough record #dashboard was last rendered from
  dashboardView,   \* #dashboard: style.display, --header-color and what innerHTML shows
  thrown,          \* the exceptions that left an event handler uncaught
  mapPalette,      \* the palette of the style function of map.data
  legend,          \* the rows of #map-legend
  inclusivity,     \* window.VisualInclusivity, its toggle and the saved preference
  errors           \* the messages showErrorMessage was called with

vars == <<currentCity, crimeData, searchIndex, loads, searchBox, searchValue,
          clearDisplay, results, resultLevels, resultColors, resultsDisplay,
          dashboard, dashboardView, thrown, mapPalette, legend, inclusivity, errors>>

searchVars == <<searchValue, clearDisplay, results, resultLevels, resultColors,
                resultsDisplay>>

panelVars == <<dashboard, dashboardView, thrown>>

styleVars == <<mapPalette, legend, inclusivity>>

Stages == {"data", "geo"}
Chains == Cities \X Stages

LoadsInFlight == loads[<<"london", "data">>] + loads[<<"london", "geo">>]
                 + loads[<<"nyc", "data">>] + loads[<<"nyc", "geo">>]

\* the texts typed into the search input
QueryTexts == { <<" ">>, <<"L","o","n">>, <<"p","c","t">> }

LoadFailedMessage == "Failed to load crime data. Please try again later."
NotFoundMessage == "Borough data not found"

\* the fetch chain initMap starts, with config = cityConfigs[city]
initMap(city) == [loads EXCEPT ![<<city, "data">>] = @ + 1]

\* no #dashboard element yet
NoDashboard == [display |-> "none", headerColor |-> Undefined, content |-> Undefined]

\* new VisualInclusivity(), before initialize(map) made its toggle; saved is
\* localStorage 'visualInclusiveMode'
NewInclusivity == [isVisualInclusiveMode |-> FALSE, toggle |-> FALSE, saved |-> Undefined]

\* the page after its scripts ran and the first initMap call
Init ==
  /\ currentCity = "london"
  /\ crimeData = <<>>
  /\ searchIndex = <<>>
  /\ loads = [c \in Chains |-> IF c = <<"london", "data">> THEN 1 ELSE 0]
  /\ searchBox = FALSE
  /\ searchValue = <<>>
  /\ clearDisplay = "none"
  /\ results = <<>>
  /\ resultLevels = <<>>
  /\ resultColors = <<>>
  /\ resultsDisplay = "none"
  /\ dashboard = Undefined
  /\ dashboardView = NoDashboard
  /\ thrown = {}
  /\ mapPalette = Undefined
  /\ legend = Undefined
  /\ inclusivity = NewInclusivity
  /\ errors = {}

\* .then(data => { data.boroughs.forEach(...); return fetch(config.geoFile) })
DataLoaded(city) ==
  /\ loads[<<city, "data">>] > 0
  /\ \E doc \in Docs(city) :
       LET r == loadBoroughs(crimeData, doc.boroughs, 1)
       IN /\ crimeData' = r.crimeData
          /\ IF r.ok
             THEN /\ loads' = [loads EXCEPT ![<<city, "data">>] = @ - 1,
                                            ![<<city, "geo">>] = @ + 1]
                  /\ errors' = errors
             ELSE /\ loads' = [loads EXCEPT ![<<city, "data">>] = @ - 1]
                  /\ errors' = errors \cup {LoadFailedMessage}
  /\ UNCHANGED <<currentCity, searchIndex, searchBox, searchVars, panelVars, styleVars>>

\* .then(geoData => { ...; initializeSearch(); buildSearchIndex(); })
GeoLoaded(city) ==
  /\ loads[<<city, "geo">>] > 0
  /\ loads' = [loads EXCEPT ![<<city, "geo">>] = @ - 1]
  /\ searchBox' = TRUE
  /\ LET first == buildSearchIndexOn(searchIndex, crimeData, currentCity)
         second == buildSearchIndexOn(first, crimeData, currentCity)
     IN searchIndex' = second
  /\ mapPalette' = Def(standardPalette)
  /\ UNCHANGED <<currentCity, crimeData, searchVars, panelVars, legend, inclusivity, errors>>

\* a fetch is rejected or a body is no JSON: .catch(error => showErrorMessage(...))
LoadFailed(city, stage) ==
  /\ loads[<<city, stage>>] > 0
  /\ loads' = [loads EXCEPT ![<<city, stage>>] = @ - 1]
  /\ errors' = errors \cup {LoadFailedMessage}
  /\ UNCHANGED <<currentCity, crimeData, searchIndex, searchBox, searchVars, panelVars,
                 styleVars>>

\* a city button is clicked
switchCity(cityKey) ==
  /\ LoadsInFlight < MaxLoads
  /\ currentCity' = cityKey
  /\ IF searchBox
     THEN /\ searchValue' = <<>>
          /\ clearDisplay' = "none"
          /\ resultsDisplay' = "none"
     ELSE UNCHANGED <<searchValue, clearDisplay, resultsDisplay>>
  /\ crimeData' = <<>>
  /\ mapPalette' = Undefined
  /\ loads' = initMap(cityKey)
  /\ UNCHANGED <<searchIndex, searchBox, results, resultLevels, resultColors, panelVars,
                 legend, inclusivity, errors>>

\* an input event of the search box
handleSearchSortInPlace(text) ==
  /\ searchBox
  /\ searchValue' = text
  /\ LET query == toLowerCase(trim(text))
     IN IF Len(query) = 0
        THEN /\ resultsDisplay' = "none"
             /\ clearDisplay' = "none"
             /\ UNCHANGED <<results, resultLevels, resultColors, searchIndex>>
        ELSE /\ clearDisplay' = "block"
             /\ searchIndex' = sortItems(searchIndex, query, Len(searchIndex))
             /\ results' = slice(filterIndex(searchIndex', query, 1), MaxResults)
             /\ resultLevels' = renderLevels(results')
             /\ resultColors' = renderColors(results')
             /\ resultsDisplay' = "block"
  /\ UNCHANGED <<currentCity, crimeData, loads, searchBox, panelVars, styleVars, errors>>

handleSearch(text) ==
  /\ searchBox
  /\ searchValue' = text
  /\ LET query == toLowerCase(trim(text))
     IN IF Len(query) = 0
        THEN /\ resultsDisplay' = "none"
             /\ clearDisplay' = "none"
             /\ UNCHANGED <<results, resultLevels, resultColors>>
        ELSE /\ clearDisplay' = "block"
             /\ results' = searchResults(searchIndex, query)
             /\ resultLevels' = renderLevels(results')
             /\ resultColors' = renderColors(results')
             /\ resultsDisplay' = "block"
  /\ UNCHANGED <<currentCity, crimeData, searchIndex, loads, searchBox, panelVars,
                 styleVars, errors>>

\* showDashboard(boroughData): the header colour is set before the template
\* is evaluated, so it changes even when the template throws
showDashboard(boroughData) ==
  IF dashboardThrows(boroughData)
  THEN /\ thrown' = thrown \cup {"TypeError"}
       /\ dashboardView' = [dashboardView EXCEPT
                              !.headerColor = Def(dashboardColor(boroughData))]
       /\ dashboard' = dashboard
  ELSE /\ thrown' = thrown
       /\ dashboardView' = [display |-> "block",
                            headerColor |-> Def(dashboardColor(boroughData)),
                            content |-> Def(dashboardContent(boroughData, currentCity))]
       /\ dashboard' = Def(boroughData)

\* a click on the i-th rendered result
selectSearchResult(i) ==
  /\ resultsDisplay = "block"
  /\ i \in 1..Len(results)
  /\ LET boroughData == ObjGet(crimeData, toUpperCase(Val(results[i].data.name)))
     IN IF IsDef(boroughData)
        THEN /\ showDashboard(Val(boroughData))
             /\ IF dashboardThrows(Val(boroughData))
                THEN UNCHANGED <<searchValue, clearDisplay, resultsDisplay>>
                ELSE /\ searchValue' = <<>>
                     /\ clearDisplay' = "none"
                     /\ resultsDisplay' = "none"
             /\ errors' = errors
        ELSE /\ errors' = errors \cup {NotFoundMessage}
             /\ UNCHANGED <<panelVars, searchValue, clearDisplay, resultsDisplay>>
  /\ UNCHANGED <<currentCity, crimeData, searchIndex, loads, searchBox, results,
                 resultLevels, resultColors, styleVars>>

\* a click on the clear button
clearSearch ==
  /\ clearDisplay = "block"
  /\ searchValue' = <<>>
  /\ clearDisplay' = "none"
  /\ resultsDisplay' = "none"
  /\ UNCHANGED <<currentCity, crimeData, searchIndex, loads, searchBox, results,
                 resultLevels, resultColors, panelVars, styleVars,
                 errors>>

\* the search input gets the focus
focusSearch ==
  /\ searchBox
  /\ resultsDisplay = "none"
  /\ Len(trim(searchValue)) > 0
  /\ resultsDisplay' = "block"
  /\ UNCHANGED <<currentCity, crimeData, searchIndex, loads, searchBox, searchValue,
                 clearDisplay, results, resultLevels, resultColors, panelVars, styleVars, errors>>

\* a click outside the search container
clickOutside ==
  /\ searchBox
  /\ resultsDisplay = "block"
  /\ resultsDisplay' = "none"
  /\ UNCHANGED <<currentCity, crimeData, searchIndex, loads, searchBox, searchValue,
                 clearDisplay, results, resultLevels, resultColors, panelVars, styleVars, errors>>

Next ==
  \/ \E city \in Cities : DataLoaded(city)
  \/ \E city \in Cities : GeoLoaded(city)
  \/ \E city \in Cities, stage \in Stages : LoadFailed(city, stage)
  \/ \E cityKey \in Cities : switchCity(cityKey)
  \/ \E text \in QueryTexts : handleSearch(text)
  \/ \E i \in 1..MaxResults : selectSearchResult(i)
  \/ clearSearch
  \/ focusSearch
  \/ clickOutside

Spec == Init /\ [][Next]_vars

(***************************************************************************)
(* The query handler on its own: the page after one city was loaded from   *)
(* one document, then only search-box events.                              *)
(***************************************************************************)
\* a London document with prefix, substring and kind ties
GreenDoc ==
  [id |-> "london_green", city |-> "london", boroughs |-> <<
    LondonBorough("london_green", Def(<<"W","e","s","t"," ","L","o","n","d","o","n">>), Def(7), Def(120),
      Def(<<Area(Def(<<"L","o","n","d","o","n"," ","F","i","e","l","d","s">>)), Area(Def(<<"A","b","b","e","y">>))>>)),
    LondonBorough("london_green", Def(<<"L","o","n","d","o","n","d","e","r","r","y">>), Def(2), Def(30),
      Def(<<Area(Def(<<"G","r","e","e","n"," ","W","a","r","d">>)), Area(Def(<<"A","b","b","e","y">>))>>)),
    LondonBorough("london_green", Def(<<"G","r","e","e","n","w","i","c","h">>), Def(5), Def(60),
      Def(<<Area(Def(<<"a","b","b","e","y"," ","W","o","o","d">>)), Area(Def(<<>>))>>)) >>]

\* an NYC document with more than MaxResults precincts
PrecinctDoc ==
  [id |-> "nyc_precincts", city |-> "nyc", boroughs |-> <<
    NycBorough("nyc_precincts", Def(<<"B","r","o","o","k","l","y","n">>), Def(8), Def(200),
      Def(<<Area(Def(sPrecinct \o <<"7","5">>)), Area(Def(sPrecinct \o <<"6","0">>)),
            Area(Def(sPrecinct \o <<"6","3">>)), Area(Def(sPrecinct \o <<"6","1">>)),
            Area(Def(sPrecinct \o <<"6","2">>))>>)),
    NycBorough("nyc_precincts", Def(<<"B","r","o","n","x">>), Def(9), Def(300),
      Def(<<Area(Def(sPrecinct \o <<"4","1">>)), Area(Def(sPrecinct \o <<"4","0">>)),
            Area(Def(sPrecinct \o <<"7">>)), Area(Def(sPrecinct \o <<"4","2">>)),
            Area(Def(<<"C","e","n","t","r","a","l"," ","P","a","r","k">>))>>)) >>]

QueryDocs == {LondonDoc, NycDoc, GreenDoc, PrecinctDoc}

\* the texts typed into the search input
AllQueryTexts ==
  QueryTexts \cup
  { <<>>, <<" ","l","o","n"," ">>, <<"L","O","N">>, <<"g","r","e","e","n">>, <<"G","r">>, <<"a">>, <<"a","b","b","e","y">>, <<"p">>, <<"r">>, <<"7">>, <<"7","5">>, <<"p","c","t"," ","7","5">>, <<"c","t"," ","4">>, <<"6">>, <<"b">>, <<"o","n">>, <<"n">>, <<"z","z">>, <<"p","r","e","c","i","n","c","t">>, <<"e">>, <<"4">>, <<" ","7">> }

InitQuery ==
  /\ \E doc \in QueryDocs :
       /\ currentCity = doc.city
       /\ crimeData = loadBoroughs(<<>>, doc.boroughs, 1).crimeData
       /\ searchIndex = buildSearchIndex(crimeData, currentCity)
  /\ loads = [c \in Chains |-> 0]
  /\ searchBox = TRUE
  /\ searchValue = <<>>
  /\ clearDisplay = "none"
  /\ results = <<>>
  /\ resultLevels = <<>>
  /\ resultColors = <<>>
  /\ resultsDisplay = "none"
  /\ dashboard = Undefined
  /\ dashboardView = NoDashboard
  /\ thrown = {}
  /\ mapPalette = Def(standardPalette)
  /\ legend = Undefined
  /\ inclusivity = NewInclusivity
  /\ errors = {}

NextQuery ==
  \/ \E text \in AllQueryTexts : handleSearch(text)
  \/ \E i \in 1..MaxResults : selectSearchResult(i)
  \/ clearSearch
  \/ focusSearch
  \/ clickOutside

SpecQuery == InitQuery /\ [][NextQuery]_vars

(***************************************************************************)
(* The whole page in sequential use: a city button is clicked only when    *)
(* at most MaxFrameLoads fetch chains stay in flight.                      *)
(***************************************************************************)
MaxFrameLoads == 1

\* a click on a city button while fewer than MaxFrameLoads chains are in flight
switchCityWhenIdle(cityKey) == LoadsInFlight < MaxFrameLoads /\ switchCity(cityKey)

NextFrame ==
  \/ \E city \in Cities : DataLoaded(city)
  \/ \E city \in Cities : GeoLoaded(city)
  \/ \E city \in Cities, stage \in Stages : LoadFailed(city, stage)
  \/ \E cityKey \in Cities : switchCityWhenIdle(cityKey)
  \/ \E text \in QueryTexts : handleSearch(text)
  \/ \E i \in 1..MaxResults : selectSearchResult(i)
  \/ clearSearch
  \/ focusSearch
  \/ clickOutside

SpecFrame == Init /\ [][NextFrame]_vars

(***************************************************************************)
(* buildSearchIndex on its own: the geo callback of one fetch chain, on    *)
(* the datasets one or two documents leave in crimeData.                   *)
(***************************************************************************)
\* a London document with an empty borough name, ward names in the shape of
\* an alias, a nameless ward, and boroughs without a score
OddDoc ==
  [id |-> "london_odd", city |-> "london", boroughs |-> <<
    LondonBorough("london_odd", Def(<<>>), Def(4), Def(10),
      Def(<<Area(Def(<<"H","i","d","d","e","n"," ","W","a","r","d">>))>>)),
    LondonBorough("london_odd", Def(<<"W","a","r","d"," ","E","n","d">>), Undefined, Def(120),
      Def(<<Area(Def(<<"W","a","r","d"," ","5">>)), Area(Def(<<"w","a","r","d"," ","6">>)), Area(Undefined)>>)),
    LondonBorough("london_odd", Def(<<"Z","e","r","o">>), Def(0), Def(40), Undefined),
    LondonBorough("london_odd", Def(<<"B","a","r","e">>), Undefined, Undefined, Def(<<>>)) >>]

\* an NYC document with precinct names in several spellings
AliasDoc ==
  [id |-> "nyc_alias", city |-> "nyc", boroughs |-> <<
    NycBorough("nyc_alias", Def(<<"Q","u","e","e","n","s">>), Def(6), Def(90),
      Def(<<Area(Def(sPrecinct \o <<"7","5">>)), Area(Def(<<"p","r","e","c","i","n","c","t"," ","9">>)),
            Area(Def(sPrecinct \o <<"7","B">>)), Area(Def(<<"O","l","d"," ">> \o sPrecinct \o <<"3">>)),
            Area(Def(<<"M","i","d","t","o","w","n">>))>>)) >>]

BuildDocs == QueryDocs \cup {OddDoc, AliasDoc}

InitBuild ==
  /\ \E first \in BuildDocs, second \in BuildDocs, city \in Cities, stale \in BOOLEAN :
       /\ currentCity = city
       /\ crimeData = loadBoroughs(loadBoroughs(<<>>, first.boroughs, 1).crimeData,
                                   second.boroughs, 1).crimeData
       /\ searchIndex = IF stale
                        THEN buildSearchIndex(loadBoroughs(<<>>, first.boroughs, 1).crimeData,
                                              first.city)
                        ELSE <<>>
       /\ searchBox = stale
       /\ loads = [c \in Chains |-> IF c = <<city, "geo">> THEN 1 ELSE 0]
  /\ searchValue = <<>>
  /\ clearDisplay = "none"
  /\ results = <<>>
  /\ resultLevels = <<>>
  /\ resultColors = <<>>
  /\ resultsDisplay = "none"
  /\ dashboard = Undefined
  /\ dashboardView = NoDashboard
  /\ thrown = {}
  /\ mapPalette = Undefined
  /\ legend = Undefined
  /\ inclusivity = NewInclusivity
  /\ errors = {}

NextBuild == \E city \in Cities : GeoLoaded(city)

SpecBuild == InitBuild /\ [][NextBuild]_vars

(***************************************************************************)
(* getSafetyLevel on the scores of search results: one London borough with *)
(* any score of -MaxScore..MaxScore or none, then search-box events.       *)
(***************************************************************************)
MaxScore == 15

Scores == {Undefined} \cup {Def(n) : n \in (0 - MaxScore)..MaxScore}

ScoreDoc(score) ==
  [id |-> "london_score", city |-> "london", boroughs |-> <<
    LondonBorough("london_score", Def(<<"A","l","p","h","a">>), score, Undefined,
      Def(<<Area(Def(<<"A","l","p","h","a"," ","W","a","r","d">>))>>)) >>]

InitScore ==
  /\ \E score \in Scores :
       /\ crimeData = loadBoroughs(<<>>, ScoreDoc(score).boroughs, 1).crimeData
       /\ searchIndex = buildSearchIndex(crimeData, "london")
  /\ currentCity = "london"
  /\ loads = [c \in Chains |-> 0]
  /\ searchBox = TRUE
  /\ searchValue = <<>>
  /\ clearDisplay = "none"
  /\ results = <<>>
  /\ resultLevels = <<>>
  /\ resultColors = <<>>
  /\ resultsDisplay = "none"
  /\ dashboard = Undefined
  /\ dashboardView = NoDashboard
  /\ thrown = {}
  /\ mapPalette = Def(standardPalette)
  /\ legend = Undefined
  /\ inclusivity = NewInclusivity
  /\ errors = {}

SpecScore == InitScore /\ [][NextQuery]_vars

(***************************************************************************)
(* The loaded page with its dashboard: documents whose areas carry crime   *)
(* counts, the dashboard buttons and the accessibility toggle.             *)
(***************************************************************************)
Crime(type, count) == [key |-> type, value |-> count]

CountedArea(name, totalCrimes, crimeTypes) ==
  [name |-> Def(name), totalCrimes |-> Def(totalCrimes), crimeTypes |-> crimeTypes]

\* a London document whose wards spell one crime type in two ways, tie, lack
\* counts or are missing
LondonViewDoc ==
  [id |-> "london_view", city |-> "london", boroughs |-> <<
    LondonBorough("london_view", Def(<<"V","a","l","e">>), Def(2), Def(9),
      Def(<<CountedArea(<<"V","a","l","e"," ","N","o","r","t","h">>, 7,
           Def(<<Crime(<<"V","E","H","I","C","L","E"," ","O","F","F","E","N","C","E","S">>, 3), Crime(<<"B","U","R","G","L","A","R","Y">>, 4)>>)),
            CountedArea(<<"V","a","l","e"," ","S","o","u","t","h">>, 2,
           Def(<<Crime(<<"V","E","H","I","C","L","E","O","F","F","E","N","C","E","S">>, 2)>>))>>)),
    LondonBorough("london_view", Def(<<"T","i","e">>), Def(5), Def(6),
      Def(<<CountedArea(<<"T","i","e"," ","E","a","s","t">>, 4,
           Def(<<Crime(<<"T","H","E","F","T">>, 2), Crime(<<"B","U","R","G","L","A","R","Y">>, 2)>>)),
            CountedArea(<<"T","i","e"," ","W","e","s","t">>, 2,
           Def(<<Crime(<<"A","R","S","O","N">>, 2)>>))>>)),
    LondonBorough("london_view", Def(<<"Q","u","i","e","t">>), Def(3), Def(0), Def(<<>>)),
    LondonBorough("london_view", Def(<<"B","a","r","e">>), Def(8), Def(7), Undefined),
    LondonBorough("london_view", Def(<<"P","l","a","i","n">>), Def(6), Def(5),
      Def(<<Area(Def(<<"P","l","a","i","n"," ","O","l","d">>)),
            CountedArea(<<"P","l","a","i","n"," ","N","e","w">>, 5,
           Def(<<>>))>>)),
    LondonBorough("london_view", Def(<<"Z","e","r","o">>), Def(0), Def(40), Def(<<>>)) >>]

\* an NYC document with a flat breakdown, a stated level and snake-case totals
NycViewDoc ==
  [id |-> "nyc_view", city |-> "nyc", boroughs |-> <<
    [NycBorough("nyc_view", Def(<<"K","i","n","g","s">>), Undefined, Undefined,
       Def(<<CountedArea(<<"P","r","e","c","i","n","c","t"," ","6","0">>, 3,
           Def(<<Crime(<<"A","S","S","A","U","L","T">>, 3)>>))>>))
       EXCEPT !.safety_score = Def(9), !.safety_level = Def("Safe"),
              !.total_crimes = Def(12),
              !.crime_breakdown = Def(<<Crime(<<"R","O","B","B","E","R","Y">>, 5), Crime(<<"F","R","A","U","D">>, 7)>>)],
    [NycBorough("nyc_view", Def(<<"E","m","p","t","y">>), Def(4), Def(0), Def(<<>>))
       EXCEPT !.total_crimes = Def(0), !.crime_breakdown = Def(<<>>)],
    [NycBorough("nyc_view", Def(<<"T","o","t","a","l">>), Undefined, Undefined, Undefined)
       EXCEPT !.total_crimes = Def(20)] >>]

\* raw crime-type labels: the keys and the display labels of crimeTypeMap and
\* other spellings
OtherLabels == {
  <<"c","r","i","m","i","n","a","l"," ","d","a","m","a","g","e">>,
  <<"C","R","I","M","I","N","A","L","D","A","M","A","G","E">>,
  <<"C","r","i","m","i","n","a","l"," "," ","D","a","m","a","g","e">>,
  <<"W","E","A","P","O","N","S","O","F","F","E","N","C","E","S">>,
  <<"w","e","a","p","o","n","s"," ","o","f","f","e","n","c","e","s">>,
  <<"c","y","b","e","r"," ","c","r","i","m","e">>,
  <<"C","y","b","e","r"," ","c","r","i","m","e">>,
  <<"B","I","K","E"," ","T","H","E","F","T">>,
  <<"v","i","o","l","e","n","c","e"," ","a","g","a","i","n","s","t"," ","t","h","e"," ","p","e","r","s","o","n">>,
  <<"x">>,
  <<>> }

RawLabels ==
  {crimeTypeMap[i].key : i \in 1..Len(crimeTypeMap)}
  \cup {crimeTypeMap[i].value : i \in 1..Len(crimeTypeMap)}
  \cup OtherLabels

\* a London document with one ward that counts one crime type
LabelDoc(type) ==
  [id |-> "london_label", city |-> "london", boroughs |-> <<
    LondonBorough("london_label", Def(<<"B","e","t","a">>), Def(4), Def(1),
      Def(<<CountedArea(<<"B","e","t","a"," ","W","a","r","d">>, 1, Def(<<Crime(type, 1)>>))>>)) >>]

MaxViewScore == 11

\* a London document with one borough of a given score
ScoreViewDoc(score) ==
  [id |-> "london_scored", city |-> "london", boroughs |-> <<
    LondonBorough("london_scored", Def(<<"A","l","p","h","a">>), Def(score), Def(50), Def(<<>>)) >>]

ViewDocs ==
  {LondonViewDoc, NycViewDoc}
  \cup {LabelDoc(type) : type \in RawLabels}
  \cup {ScoreViewDoc(score) : score \in 0..MaxViewScore}

\* the texts typed into the search input of this page
ViewTexts == { <<"a">>, <<"e">>, <<"i">>, <<"o">> }

InitView ==
  /\ \E doc \in ViewDocs :
       /\ currentCity = doc.city
       /\ crimeData = loadBoroughs(<<>>, doc.boroughs, 1).crimeData
       /\ searchIndex = buildSearchIndex(crimeData, currentCity)
  /\ loads = [c \in Chains |-> 0]
  /\ searchBox = TRUE
  /\ searchValue = <<>>
  /\ clearDisplay = "none"
  /\ results = <<>>
  /\ resultLevels = <<>>
  /\ resultColors = <<>>
  /\ resultsDisplay = "none"
  /\ dashboard = Undefined
  /\ dashboardView = NoDashboard
  /\ thrown = {}
  /\ mapPalette = Def(standardPalette)
  /\ legend = Undefined
  /\ \E saved \in {Undefined, Def("true"), Def("false")} :
       inclusivity = [NewInclusivity EXCEPT !.saved = saved]
  /\ errors = {}

\* a click on the close button of the dashboard
closeDashboard ==
  /\ dashboardView.display = "block"
  /\ dashboardView' = [dashboardView EXCEPT !.display = "none"]
  /\ UNCHANGED <<currentCity, crimeData, searchIndex, loads, searchBox, searchVars,
                 dashboard, thrown, styleVars, errors>>

\* window.updateMapColorsFromToggle(palette), defined once a geo callback ran
updateMapColors(isVisualInclusiveMode) ==
  IF searchBox THEN Def(getCurrentPalette(isVisualInclusiveMode)) ELSE mapPalette

\* VisualInclusivity.initialize(map), called once the map exists: it makes
\* the toggle and the legend and applies the saved preference
initialize ==
  /\ ~inclusivity.toggle
  /\ LET savedMode == inclusivity.saved = Def("true")
     IN /\ inclusivity' = [inclusivity EXCEPT !.toggle = TRUE,
                                              !.isVisualInclusiveMode = savedMode]
        /\ legend' = Def(legendRows(savedMode))
        /\ mapPalette' = IF savedMode THEN updateMapColors(TRUE) ELSE mapPalette
  /\ UNCHANGED <<currentCity, crimeData, searchIndex, loads, searchBox, searchVars,
                 panelVars, errors>>

\* a click on the toggle.  updateDashboard reads window.crimeData,
\* which the data callback set to the crimeData object: the two are one
\* object as long as no switchCity replaced crimeData, so this action
\* belongs to pages without city switches.  An exception of showDashboard
\* leaves the handler before the preference is saved.
toggleVisualInclusiveMode ==
  /\ inclusivity.toggle
  /\ LET mode == ~inclusivity.isVisualInclusiveMode
         shown == dashboardView.display = "block" /\ IsDef(dashboardView.content)
         boroughData == IF shown /\ IsDef(Val(dashboardView.content).name)
                        THEN ObjGet(crimeData,
                                    toUpperCase(Val(Val(dashboardView.content).name)))
                        ELSE Undefined
     IN /\ mapPalette' = updateMapColors(mode)
        /\ legend' = IF IsDef(legend) THEN Def(legendRows(mode)) ELSE legend
        /\ IF IsDef(boroughData)
           THEN showDashboard(Val(boroughData))
           ELSE UNCHANGED panelVars
        /\ inclusivity' =
             [inclusivity EXCEPT
                !.isVisualInclusiveMode = mode,
                !.saved = IF IsDef(boroughData) /\ dashboardThrows(Val(boroughData))
                          THEN @
                          ELSE Def(IF mode THEN "true" ELSE "false")]
  /\ UNCHANGED <<currentCity, crimeData, searchIndex, loads, searchBox, searchVars, errors>>

NextView ==
  \/ \E text \in ViewTexts : handleSearch(text)
  \/ \E i \in 1..MaxResults : selectSearchResult(i)
  \/ clearSearch
  \/ focusSearch
  \/ clickOutside
  \/ closeDashboard
  \/ initialize
  \/ toggleVisualInclusiveMode

SpecView == InitView /\ [][NextView]_vars

(***************************************************************************)
(* Properties.                                                             *)
(***************************************************************************)
\* the city whose document a record was parsed from
RecordCity(boroughData) == DocCity(boroughData.src)

\* C1: once a city switch was invoked, no query shows an entry of a borough of
\* the previous city: every entry of a displayed result belongs to the current city.
C1_NoStaleResults ==
  resultsDisplay = "block" =>
    \A i \in 1..Len(results) : RecordCity(results[i].data) = currentCity

\* C2: every entry of the live search index has its owning borough record in
\* the current dataset, under the upper-cased name of that record.
C2_IndexOwnersExist ==
  \A i \in 1..Len(searchIndex) :
    ObjGet(crimeData, toUpperCase(Val(searchIndex[i].data.name)))
      = Def(searchIndex[i].data)

\* C3: the live dataset holds records of exactly one city, the current one.
C3_OneCityDataset ==
  \A i \in 1..Len(crimeData) : RecordCity(crimeData[i].value) = currentCity

\* C4: city switches are serialized: at most one city load is in progress.
C4_SwitchesSerialized == LoadsInFlight <= 1

\* C5: once a city was loaded, a failed load leaves a city fully functional:
\* with no load in flight the dataset is not empty and every index entry opens
\* its borough record.
C5_FailedLoadKeepsCity ==
  (searchBox /\ LoadFailedMessage \in errors /\ LoadsInFlight = 0) =>
    /\ crimeData # <<>>
    /\ searchIndex # <<>>
    /\ \A i \in 1..Len(searchIndex) :
         IsDef(ObjGet(crimeData, toUpperCase(Val(searchIndex[i].data.name))))

\* C6: loading a document is all-or-nothing: no record of a document with a
\* nameless borough is part of the live dataset.
Malformed(doc) == \E i \in 1..Len(doc.boroughs) : ~IsDef(doc.boroughs[i].name)

C6_LoadAllOrNothing ==
  \A doc \in AllDocs :
    Malformed(doc) => \A i \in 1..Len(crimeData) : crimeData[i].value.src # doc.id

(***************************************************************************)
(* The query contract, stated on the displayed results of the last query.  *)
(***************************************************************************)
LastQuery == toLowerCase(trim(searchValue))

AliasKeys(entry) ==
  IF IsDef(entry.searchTerms) THEN Range(Val(entry.searchTerms)) ELSE {}

IsMatch(entry, q) ==
  includes(entry.searchName, q) \/ \E key \in AliasKeys(entry) : includes(key, q)

IsPrefixMatch(entry, q) ==
  startsWith(entry.searchName, q) \/ \E key \in AliasKeys(entry) : startsWith(key, q)

IsBoroughEntry(entry) == entry.type = sBorough

MatchPositions(q) == {i \in 1..Len(searchIndex) : IsMatch(searchIndex[i], q)}

\* C7: an entry is a match exactly when the query is a substring of its
\* searchName or of one of its searchTerms; every returned entry is a match of
\* the index, and when at most 8 entries match, every match is returned.
C7_MatchPredicate ==
  resultsDisplay = "block" =>
    /\ \A i \in 1..Len(results) :
         /\ results[i] \in Range(searchIndex)
         /\ IsMatch(results[i], LastQuery)
    /\ Cardinality(MatchPositions(LastQuery)) <= 8 =>
         /\ Len(results) = Cardinality(MatchPositions(LastQuery))
         /\ \A p \in MatchPositions(LastQuery) : searchIndex[p] \in Range(results)

\* a result that matches through an alias only, with an entry left out
C7_Witness ==
  /\ resultsDisplay = "block"
  /\ \E i \in 1..Len(results) : ~includes(results[i].searchName, LastQuery)
  /\ \E p \in 1..Len(searchIndex) : searchIndex[p] \notin Range(results)
  /\ Cardinality(MatchPositions(LastQuery)) <= 8

\* C8: in every result, each entry whose searchName or alias starts with the
\* query precedes each entry that only contains the query.
C8_PrefixFirst ==
  resultsDisplay = "block" =>
    \A i, j \in 1..Len(results) :
      (i < j /\ IsPrefixMatch(results[j], LastQuery)) => IsPrefixMatch(results[i], LastQuery)

PositionOf(entry) == CHOOSE p \in 1..Len(searchIndex) : searchIndex[p] = entry

\* a prefix match displayed before a substring match that precedes it in the index
C8_Witness ==
  /\ resultsDisplay = "block"
  /\ \E i, j \in 1..Len(results) :
       /\ i < j
       /\ IsPrefixMatch(results[i], LastQuery)
       /\ ~IsPrefixMatch(results[j], LastQuery)
       /\ PositionOf(results[j]) < PositionOf(results[i])

\* C9: among result entries with the same prefix rank, borough entries precede
\* area entries; with the same prefix rank and kind, names ascend.
C9_KindThenName ==
  resultsDisplay = "block" =>
    \A i, j \in 1..Len(results) :
      (i < j /\ IsPrefixMatch(results[i], LastQuery) = IsPrefixMatch(results[j], LastQuery)) =>
        /\ IsBoroughEntry(results[j]) => IsBoroughEntry(results[i])
        /\ IsBoroughEntry(results[i]) = IsBoroughEntry(results[j]) =>
             localeCompare(results[i].name, results[j].name) <= 0

\* the query "green": borough Greenwich before area Green Ward, both prefix matches
C9_Witness ==
  /\ resultsDisplay = "block"
  /\ LastQuery = <<"g","r","e","e","n">>
  /\ Len(results) = 2
  /\ results[1].name = <<"G","r","e","e","n","w","i","c","h">> /\ IsBoroughEntry(results[1])
  /\ results[2].name = <<"G","r","e","e","n"," ","W","a","r","d">> /\ ~IsBoroughEntry(results[2])
  /\ localeCompare(results[2].name, results[1].name) < 0

\* a ranks no worse than b: prefix rank, then kind rank, then name
RanksBefore(a, b, q) ==
  IF IsPrefixMatch(a, q) # IsPrefixMatch(b, q) THEN IsPrefixMatch(a, q)
  ELSE IF IsBoroughEntry(a) # IsBoroughEntry(b) THEN IsBoroughEntry(a)
  ELSE localeCompare(a.name, b.name) <= 0

Min(a, b) == IF a < b THEN a ELSE b

\* C10: a result has at most 8 entries and is the first min(8, n) entries of
\* the ranked list of all n matches: it is ranked, made of distinct matches,
\* and no match left out ranks strictly before a kept one.
C10_TruncateAfterRanking ==
  resultsDisplay = "block" =>
    /\ Len(results) <= 8
    /\ Len(results) = Min(8, Cardinality(MatchPositions(LastQuery)))
    /\ \A i, j \in 1..Len(results) :
         i < j => /\ results[i] # results[j]
                  /\ RanksBefore(results[i], results[j], LastQuery)
    /\ \A p \in MatchPositions(LastQuery) :
         searchIndex[p] \notin Range(results) =>
           \A i \in 1..Len(results) : RanksBefore(results[i], searchIndex[p], LastQuery)

\* more than 8 matches, and a match among the first 8 of the index is cut
C10_Witness ==
  /\ resultsDisplay = "block"
  /\ Cardinality(MatchPositions(LastQuery)) > 8
  /\ Len(results) = 8
  /\ \E p \in MatchPositions(LastQuery) :
       /\ searchIndex[p] \notin Range(results)
       /\ Cardinality({r \in MatchPositions(LastQuery) : r < p}) < 8

(***************************************************************************)
(* The query handler's empty and no-match cases.                           *)
(***************************************************************************)
IsBlank(text) == \A i \in 1..Len(text) : text[i] = " "

\* C11: a query whose text is empty or only spaces hides the results panel and
\* reports no error, and the panel stays hidden while the text is blank; a
\* query with other text shows the panel, with no rows (the "No results
\* found" message) exactly when no entry of the index matches.
C11_BlankQueryHidesPanel ==
  /\ [](IsBlank(searchValue) => resultsDisplay = "none")
  /\ [][\A text \in AllQueryTexts : handleSearch(text) =>
          IF IsBlank(text)
          THEN resultsDisplay' = "none" /\ errors' = errors
          ELSE /\ resultsDisplay' = "block"
               /\ errors' = errors
               /\ (results' = <<>>) = (MatchPositions(toLowerCase(trim(text))) = {})]_vars

\* a query of one space typed after a query that had results
C11_Witness ==
  /\ searchValue = <<" ">>
  /\ resultsDisplay = "none"
  /\ results # <<>>

(***************************************************************************)
(* Who writes searchIndex, crimeData and currentCity.                      *)
(***************************************************************************)
\* a query, a selection (with the dashboard it renders) or another search-box event
ReaderStep ==
  \/ \E text \in AllQueryTexts : handleSearch(text)
  \/ \E i \in 1..MaxResults : selectSearchResult(i)
  \/ clearSearch
  \/ focusSearch
  \/ clickOutside

\* a city switch or a callback of the load it started
SwitchOrLoadStep ==
  \/ \E cityKey \in Cities : switchCity(cityKey)
  \/ \E city \in Cities : DataLoaded(city)
  \/ \E city \in Cities : GeoLoaded(city)

\* C12: a query, a result selection and the dashboard render it makes leave
\* searchIndex, crimeData and currentCity unchanged; a step that changes one
\* of them is a city switch or a callback of the load a switch started.
C12_ReadersLeaveState ==
  [][/\ ReaderStep => UNCHANGED <<searchIndex, crimeData, currentCity>>
     /\ ~UNCHANGED <<searchIndex, crimeData, currentCity>> => SwitchOrLoadStep]_vars

\* a dashboard rendered from a selected result of a query on a loaded city
C12_Witness ==
  /\ IsDef(dashboard)
  /\ results # <<>>
  /\ searchIndex # <<>>
  /\ crimeData # <<>>
  /\ resultsDisplay = "none"

(***************************************************************************)
(* The index build, stated on the geo callback of a load.                  *)
(***************************************************************************)
\* the geo callback has run
Built == LoadsInFlight = 0

\* C13: the two calls of buildSearchIndex the geo callback makes, one after
\* the other, leave the same entries in the same order as one call does.
C13_BuildTwiceIsBuildOnce ==
  [][\A city \in Cities : GeoLoaded(city) =>
       searchIndex' = buildSearchIndexOn(searchIndex, crimeData, currentCity)]_vars

\* an index of several entries left by the two calls
C13_Witness ==
  /\ Built
  /\ Len(searchIndex) > 1
  /\ searchIndex = buildSearchIndex(crimeData, currentCity)

\* the boroughs of the dataset that have a name, by position in Object.entries order
NamedBoroughPos == {p \in 1..Len(crimeData) : TruthyStr(crimeData[p].value.name)}

\* the area list of a borough for the current city's area type
AreasOf(boroughData) ==
  LET areas == boroughData[cityConfigs[currentCity].areaType]
  IN IF IsDef(areas) THEN Val(areas) ELSE <<>>

NamedAreaPos(boroughData) ==
  {k \in 1..Len(AreasOf(boroughData)) : TruthyStr(AreasOf(boroughData)[k].name)}

\* where the entries of the borough at position p begin
BlockStart(p) ==
  1 + Cardinality({q \in NamedBoroughPos : q < p})
    + Cardinality(UNION {{<<q, k>> : k \in NamedAreaPos(crimeData[q].value)} :
                           q \in {r \in NamedBoroughPos : r < p}})

AreaSlot(p, k) ==
  BlockStart(p) + Cardinality({j \in NamedAreaPos(crimeData[p].value) : j <= k})

OwnerPos(entry) == CHOOSE p \in 1..Len(crimeData) : crimeData[p].value = entry.data

\* C14 (as stated): in the built index the borough entries come first, in
\* dataset order, and the area entries follow, ordered by their borough's
\* dataset order.
C14_BoroughsThenAreas ==
  Built =>
    \A i, j \in 1..Len(searchIndex) :
      i < j =>
        /\ IsBoroughEntry(searchIndex[j]) => IsBoroughEntry(searchIndex[i])
        /\ IsBoroughEntry(searchIndex[i]) = IsBoroughEntry(searchIndex[j]) =>
             OwnerPos(searchIndex[i]) <= OwnerPos(searchIndex[j])

\* C14 (amended): the built index is, for each borough with a non-empty name
\* in dataset order, the borough's entry directly followed by the entries of
\* its areas with a non-empty name in source order, and nothing else.
C14_BoroughThenItsAreas ==
  Built =>
    /\ Len(searchIndex) = BlockStart(Len(crimeData) + 1) - 1
    /\ \A p \in NamedBoroughPos :
         /\ IsBoroughEntry(searchIndex[BlockStart(p)])
         /\ searchIndex[BlockStart(p)].data = crimeData[p].value
         /\ \A k \in NamedAreaPos(crimeData[p].value) :
              /\ ~IsBoroughEntry(searchIndex[AreaSlot(p, k)])
              /\ searchIndex[AreaSlot(p, k)].data = crimeData[p].value
              /\ searchIndex[AreaSlot(p, k)].areaData = Def(AreasOf(crimeData[p].value)[k])

\* an area entry ahead of the entry of a later borough, with a nameless area skipped
C14_Witness ==
  /\ Built
  /\ \E i, j \in 1..Len(searchIndex) :
       i < j /\ ~IsBoroughEntry(searchIndex[i]) /\ IsBoroughEntry(searchIndex[j])
  /\ \E p \in NamedBoroughPos :
       NamedAreaPos(crimeData[p].value) # 1..Len(AreasOf(crimeData[p].value))

(***************************************************************************)
(* Alias keys.                                                             *)
(***************************************************************************)
AreaTypeLabel == cityConfigs[currentCity].areaTypeLabel

\* the name is "<AreaTypeLabel> <token>", compared without regard to case
MatchesLabel(name) ==
  /\ Len(name) > Len(AreaTypeLabel) + 1
  /\ toLowerCase(SubSeq(name, 1, Len(AreaTypeLabel) + 1))
       = toLowerCase(AreaTypeLabel) \o <<" ">>

TokenOf(name) == SubSeq(name, Len(AreaTypeLabel) + 2, Len(name))

RuleAliases(name) ==
  { toLowerCase(TokenOf(name)),
    sPct \o toLowerCase(TokenOf(name)),
    toLowerCase(AreaTypeLabel) \o <<" ">> \o toLowerCase(TokenOf(name)) }

\* C15: in either city, an area entry whose name is "<AreaTypeLabel> <token>"
\* (case-insensitively) has as alias keys exactly the token, "pct <token>" and
\* "<areaTypeLabel> <token>", lower-cased; an area entry with another name has
\* no alias key besides its own search name; a borough entry has none.
C15_AliasRule ==
  Built =>
    \A i \in 1..Len(searchIndex) :
      LET e == searchIndex[i]
      IN IF IsBoroughEntry(e) THEN AliasKeys(e) = {}
         ELSE IF MatchesLabel(e.name)
         THEN AliasKeys(e) \cup {e.searchName} = RuleAliases(e.name) \cup {e.searchName}
         ELSE AliasKeys(e) \ {e.searchName} = {}

sSeventyFive == <<"7","5">>

IndexedBoroughs == {searchIndex[i].data : i \in {j \in 1..Len(searchIndex) : IsBoroughEntry(searchIndex[j])}}

IndexedAreas ==
  {<<searchIndex[i].data, Val(searchIndex[i].areaData)>> :
     i \in {j \in 1..Len(searchIndex) : ~IsBoroughEntry(searchIndex[j])}}

DatasetBoroughs == {crimeData[p].value : p \in 1..Len(crimeData)}

AreaSet(boroughData) == Range(AreasOf(boroughData))

\* C17 (as stated): exactly the boroughs and areas whose own name is empty or
\* missing are left out: every borough with a non-empty name and every area
\* with a non-empty name is indexed, and nothing without a name is.
C17_SkipsExactlyNameless ==
  Built =>
    /\ IndexedBoroughs = {b \in DatasetBoroughs : TruthyStr(b.name)}
    /\ IndexedAreas =
         UNION {{<<b, a>> : a \in {x \in AreaSet(b) : TruthyStr(x.name)}} : b \in DatasetBoroughs}

\* C17 (amended): a borough is indexed exactly when its name is not empty; an
\* area is indexed exactly when its name is not empty and the name of its
\* borough is not empty.
C17_SkipsNamelessAndTheirAreas ==
  Built =>
    /\ IndexedBoroughs = {b \in DatasetBoroughs : TruthyStr(b.name)}
    /\ IndexedAreas =
         UNION {{<<b, a>> : a \in {x \in AreaSet(b) : TruthyStr(x.name)}} :
                  b \in {d \in DatasetBoroughs : TruthyStr(d.name)}}

\* a dataset with a borough of empty name that has a named area, and a
\* named borough with a nameless area
C17_Witness ==
  /\ Built
  /\ searchIndex # <<>>
  /\ \E b \in DatasetBoroughs :
       ~TruthyStr(b.name) /\ \E a \in AreaSet(b) : TruthyStr(a.name)
  /\ \E b \in DatasetBoroughs :
       TruthyStr(b.name) /\ \E a \in AreaSet(b) : ~TruthyStr(a.name)

(***************************************************************************)
(* Scores of entries.                                                      *)
(***************************************************************************)
\* the safety score of a borough record: score, else safety_score, else none
BoroughScore(boroughData) ==
  IF IsDef(boroughData.score) THEN boroughData.score ELSE boroughData.safety_score

\* C18: the score of every entry is the safety score of its borough: the same
\* number, zero included, when the borough has one, and unset when it has none.
C18_ScoreIsBoroughScore ==
  Built =>
    \A i \in 1..Len(searchIndex) :
      Def(searchIndex[i].score) = BoroughScore(searchIndex[i].data)

(***************************************************************************)
(* Safety categories of displayed results.                                 *)
(***************************************************************************)
\* the category the score table assigns to an integer score
CategoryOf(s) ==
  CASE s <= 3 -> VerySafe
    [] 3 < s /\ s <= 5 -> Safe
    [] 5 < s /\ s <= 7 -> Moderate
    [] s = 8 -> Caution
    [] s > 8 -> HighRisk

\* C19: for every integer score the category getSafetyLevel gives, as shown
\* with each search result, is Very Safe up to 3, Safe for 4 and 5, Moderate
\* for 6 and 7, Caution for 8 and High Risk above 8; zero and negative scores
\* give Very Safe and scores above 10 give High Risk.
C19_CategoryThresholds ==
  /\ Len(resultLevels) = Len(results)
  /\ \A i \in 1..Len(results) : resultLevels[i] = CategoryOf(results[i].score)

\* a displayed result of score 8, the only score of its category
C19_Witness ==
  /\ resultsDisplay = "block"
  /\ \E i \in 1..Len(results) : results[i].score = 8 /\ resultLevels[i] = Caution

NotAvailable == "N/A"

\* C20: a displayed result of a borough that has no score shows "N/A", not one
\* of the five categories.
C20_UnscoredShowsNA ==
  resultsDisplay = "block" =>
    \A i \in 1..Len(results) :
      ~IsDef(BoroughScore(results[i].data)) => resultLevels[i] = NotAvailable

\* the palette the toggle has made the active one
ActivePalette == getCurrentPalette(inclusivity.isVisualInclusiveMode)

ScoreSlots == 1..Len(standardPalette)

\* C21: for every score s in 1..10 and the active palette P, the badge of a
\* search result of score s, the fill of a map feature of score s and the
\* detail panel of a borough of score s all have the colour P[s-1]
C21_OnePaletteColour ==
  /\ \A i \in 1..Len(results) :
       results[i].score \in ScoreSlots =>
         /\ resultColors[i] = ActivePalette[results[i].score]
         /\ IsDef(mapPalette) =>
              fillColor(Val(mapPalette), Def(results[i].score)) = resultColors[i]
  /\ IsDef(dashboardView.content) =>
       LET score == Val(dashboardView.content).score
       IN (IsDef(score) /\ Val(score) \in ScoreSlots) =>
            Val(dashboardView.content).safetyColor = ActivePalette[Val(score)]

(***************************************************************************)
(* The category of a borough in a search result and in the dashboard.      *)
(***************************************************************************)
\* the rendered results that are entries of the borough the dashboard shows
RowsOfShownBorough ==
  {i \in 1..Len(results) : results[i].type = sBorough /\ Def(results[i].data) = dashboard}

\* C22: the category shown with the search result of a borough and the
\* category shown in the dashboard of that borough are the same, and each is
\* the category of the borough's safety score.
C22_SameCategoryEverywhere ==
  /\ \A i \in 1..Len(results) :
       (results[i].type = sBorough /\ IsDef(BoroughScore(results[i].data))) =>
         resultLevels[i] = CategoryOf(Val(BoroughScore(results[i].data)))
  /\ (IsDef(dashboard) /\ IsDef(dashboardView.content)) =>
       /\ IsDef(BoroughScore(Val(dashboard))) =>
            Val(dashboardView.content).safetyLevel
              = CategoryOf(Val(BoroughScore(Val(dashboard))))
       /\ \A i \in RowsOfShownBorough :
            resultLevels[i] = Val(dashboardView.content).safetyLevel

(***************************************************************************)
(* Aggregation of crime types, against the canonical buckets.              *)
(***************************************************************************)
\* the borough record whose dashboard is rendered
Shown == Val(dashboard)

DashboardShown == IsDef(dashboard) /\ IsDef(dashboardView.content)

HasFlatBreakdown(boroughData) == IsDef(boroughData.crime_breakdown)

\* every [type, count] of the areas of a borough: area order, then the order
\* of the labels within the area
RECURSIVE FlatCounts(_, _)
FlatCounts(areas, i) ==
  IF i > Len(areas) THEN <<>>
  ELSE (IF IsDef(areas[i].crimeTypes) THEN Val(areas[i].crimeTypes) ELSE <<>>)
       \o FlatCounts(areas, i + 1)

CountsOf(boroughData) ==
  LET field == areasField(boroughData, currentCity)
  IN IF IsDef(field) THEN FlatCounts(Val(field), 1) ELSE <<>>

\* the sum of the counts whose raw label has the canonical label
RECURSIVE CanonicalCount(_, _, _)
CanonicalCount(counts, label, j) ==
  IF j > Len(counts) THEN 0
  ELSE (IF formatCrimeType(counts[j].key) = label THEN counts[j].value ELSE 0)
       + CanonicalCount(counts, label, j + 1)

\* C23: without a flat breakdown the aggregation has one bucket per canonical
\* crime type, holding the sum of the counts of all raw labels of that type
\* over all areas: {"VEHICLE OFFENCES": 3} and {"VEHICLEOFFENCES": 2} make
\* one bucket of 5.
C23_CanonicalBuckets ==
  (DashboardShown /\ ~HasFlatBreakdown(Shown)) =>
    LET allCrimes == allCrimesOf(Shown, currentCity)
        counts == CountsOf(Shown)
    IN /\ \A j, k \in 1..Len(allCrimes) :
            formatCrimeType(allCrimes[j].key) = formatCrimeType(allCrimes[k].key) => j = k
       /\ \A j \in 1..Len(allCrimes) :
            allCrimes[j].value
              = CanonicalCount(counts, formatCrimeType(allCrimes[j].key), 1)

\* the canonical labels with the highest aggregated count
TopLabels(counts) ==
  {formatCrimeType(counts[j].key) : j \in
     {j \in 1..Len(counts) :
        \A k \in 1..Len(counts) :
          CanonicalCount(counts, formatCrimeType(counts[j].key), 1)
            >= CanonicalCount(counts, formatCrimeType(counts[k].key), 1)}}

\* the position at which a canonical label is first seen
FirstSeen(counts, label) ==
  CHOOSE j \in 1..Len(counts) :
    /\ formatCrimeType(counts[j].key) = label
    /\ \A k \in 1..(j - 1) : formatCrimeType(counts[k].key) # label

\* C24: the top crime type shown is the canonical label with the highest
\* aggregated count and, among several such labels, the one seen first in
\* area order and label order.
C24_TopIsHighestFirstSeen ==
  (DashboardShown /\ ~HasFlatBreakdown(Shown) /\ Len(CountsOf(Shown)) > 0) =>
    LET counts == CountsOf(Shown)
        top == Val(dashboardView.content).topCrime
    IN /\ top \in TopLabels(counts)
       /\ \A other \in TopLabels(counts) :
            FirstSeen(counts, top) <= FirstSeen(counts, other)

\* a borough without crime-type data: no areas, areas without crimeTypes or
\* with empty ones, and no flat breakdown or an empty one
NoCrimeTypeData(boroughData) ==
  /\ Len(CountsOf(boroughData)) = 0
  /\ HasFlatBreakdown(boroughData) => Val(boroughData.crime_breakdown) = <<>>

\* C25: the dashboard of a borough without crime-type data is rendered, and
\* its top crime type is "N/A".
C25_NoDataShowsNotAvailable ==
  (DashboardShown /\ NoCrimeTypeData(Shown)) =>
    Val(dashboardView.content).topCrime = sNotAvailable

\* the rendered dashboard of a borough whose areas exist and carry no counts
C25_Witness ==
  /\ DashboardShown
  /\ dashboardView.display = "block"
  /\ NoCrimeTypeData(Shown)
  /\ Val(dashboardView.content).areaCount > 0
  /\ Val(dashboardView.content).topCrime = sNotAvailable

(***************************************************************************)
(* formatCrimeType on the raw labels of the rendered dashboard.            *)
(***************************************************************************)
\* spellings of a raw label that differ from it in letter case and spaces
Respellings(type) ==
  {toUpperCase(type), toLowerCase(type), removeSpaces(type),
   removeSpaces(toUpperCase(type))}

\* the raw labels of the areas of the rendered dashboard
ShownLabels == {CountsOf(Shown)[j].key : j \in 1..Len(CountsOf(Shown))}

\* C26: a raw label and every spelling of it that differs only in letter
\* case and spaces have the same display label.
C26_CaseAndSpacingIgnored ==
  DashboardShown =>
    \A type \in ShownLabels :
      \A other \in Respellings(type) :
        formatCrimeType(other) = formatCrimeType(type)

\* C28: formatting a display label again gives the same display label.
C28_FormatIsIdempotent ==
  DashboardShown =>
    \A type \in ShownLabels :
      formatCrimeType(formatCrimeType(type)) = formatCrimeType(type)

(***************************************************************************)
(* The legend against getSafetyLevel.                                      *)
(***************************************************************************)
\* C29: each row of the legend labels every score of its range, for the
\* scores 1 to 10, with the category getSafetyLevel gives that score.
C29_LegendNamesTheLevel ==
  IsDef(legend) =>
    \A score \in ScoreSlots :
      \A r \in 1..Len(Val(legend)) :
        (Val(legend)[r].low <= score /\ score <= Val(legend)[r].high) =>
          Val(legend)[r].label = getSafetyLevel(Def(score))

(***************************************************************************)
(* Errors of showDashboard.                                                *)
(***************************************************************************)
\* the record states a crime total, which in these datasets is a
\* non-negative integer
HasTotal(boroughData) ==
  \/ IsDef(boroughData.totalCrimes) /\ Val(boroughData.totalCrimes) \in Nat
  \/ IsDef(boroughData.total_crimes) /\ Val(boroughData.total_crimes) \in Nat

\* C30: when every borough record of the dataset has a non-negative integer
\* as its crime total, zero included, no call of showDashboard throws,
\* however many areas the record has.
C30_DashboardNeverThrows ==
  (\A p \in 1..Len(crimeData) : HasTotal(crimeData[p].value)) => thrown = {}

(***************************************************************************)
(* City switches and loads alone, with the callbacks of a started fetch    *)
(* chain run eventually.                                                   *)
(***************************************************************************)
LoadStep == \E city \in Cities : DataLoaded(city) \/ GeoLoaded(city)

SwitchStep == \E cityKey \in Cities : switchCity(cityKey)

NextLive ==
  \/ \E city \in Cities : DataLoaded(city)
  \/ \E city \in Cities : GeoLoaded(city)
  \/ \E cityKey \in Cities : switchCity(cityKey)

SpecLive == Init /\ [][NextLive]_vars /\ WF_vars(LoadStep)

\* the index holds exactly the entries of one document of the current city
Fresh ==
  \E doc \in Docs(currentCity) :
    /\ ~Malformed(doc)
    /\ searchIndex = buildSearchIndex(loadBoroughs(<<>>, doc.boroughs, 1).crimeData,
                                      currentCity)

\* C27: when no load fails and the city switches come to an end, the search
\* index eventually holds, and then keeps, exactly the entries of the
\* dataset of the current city.
C27_SettlesOnCurrentCity ==
  ([](LoadFailedMessage \notin errors) /\ <>[][~SwitchStep]_vars) => <>[]Fresh

====
